---- MODULE Spec2Model ----
(***************************************************************************)
(* Model of the session-scoped artifact store (modules/dataStore.js) and   *)
(* of the stage routes of the API server that drive it.                    *)
(*                                                                         *)
(* The durable medium is the data directory: one directory per session,    *)
(* one JSON file per key.  The overlay is the process-wide Map keyed by    *)
(* the string `${sessionId}:${key}`.                                       *)
(***************************************************************************)
EXTENDS Integers, Sequences, FiniteSets, TLC

VARIABLES memoryStore, disk, now, inflight, generated, lastOp, ops

vars == <<memoryStore, disk, now, inflight, generated, lastOp, ops>>

----------------------------------------------------------------------------
(* Bounds of the exploration *)

MaxOps == 3          \* calls per behaviour in the store-level specification
MaxStatusOps == 4    \* calls per behaviour in the status specification
MaxSweepOps == 5     \* calls and clock ticks per behaviour in the sweep specification
MaxStageOps == 5     \* route steps per behaviour in the pipeline specification
MaxInflight == 2     \* requests suspended on a collaborator at one time
MaxRestartOps == 3   \* calls, crashes and restarts per behaviour in the restart specification
MaxIngestOps == 4    \* route steps per behaviour in the ingestion specification
MaxTimedOps == 4     \* route steps per behaviour in the specification of the pending calls
MaxPathOps == 8      \* route steps and views per behaviour in the specification of the whole path
MaxSelectionLen == 3 \* characters of a template selection
MaxAgreeOps == 3 \* calls in a run of successful calls
MaxOverlapOps == 4 \* steps of overlapping requests to the SOAP route
MaxPromptOps == 6 \* the prompt and the lines read by it
MaxWorkflowOps == 7  \* route steps per behaviour in the workflow specification

(* Session ids are strings, kept as sequences of characters so that the     *)
(* prefix test of deleteSession is computed as the code computes it.        *)
SA == <<"a">>
SAB == <<"a", ":", "b">>
Sessions == {SA, SAB}

PrimaryKeys == {"transcript_raw", "transcript_clean", "soap_data", "pdf_path"}
StatusKeys == PrimaryKeys \cup {"template_type", "ocr_raw", "ocr_clean"}
OcrKeys == {"ocr_raw", "ocr_clean", "image_file", "ocr_confidence"}
Keys == StatusKeys \cup {"audio_file"} \cup OcrKeys

----------------------------------------------------------------------------
(* JavaScript values *)

Null == [t |-> "null", v |-> "null"]
Str(x) == [t |-> "string", v |-> x]
Num(x) == [t |-> "number", v |-> x]
Obj(fields) == [t |-> "object", v |-> fields]

EmptyStr == Str("")
NaN == Num("NaN")

(* the values handed to store() by a direct caller *)
Values == {EmptyStr, Str("x"), NaN}

(* !!value *)
Truthy(value) ==
  CASE value.t = "null" -> FALSE
    [] value.t = "string" -> value.v # ""
    [] value.t = "number" -> value.v \notin {"0", "NaN"}
    [] OTHER -> TRUE

(* JSON.stringify(value): the text of a value, as a token sequence.  A      *)
(* number that is not finite is written as the literal null.               *)
JSONstringify(value) ==
  CASE value.t = "null" -> <<"null">>
    [] value.t = "string" -> <<"\"", value.v, "\"">>
    [] value.t = "number" ->
         IF value.v \in {"NaN", "Infinity"} THEN <<"null">> ELSE <<value.v>>
    [] OTHER -> <<"{", value.v, "}">>

(* the text left behind by a write that failed after the file was opened    *)
Truncated == <<>>

(* JSON.parse(text); a text that is not JSON throws *)
JSONparses(text) == text # Truncated

JSONparse(text) ==
  CASE Len(text) = 1 /\ text[1] = "null" -> Null
    [] Len(text) = 1 /\ text[1] # "null" -> Num(text[1])
    [] Len(text) = 3 /\ text[1] = "\"" -> Str(text[2])
    [] OTHER -> Obj(text[2])

----------------------------------------------------------------------------
(* Helpers *)

EmptyMap == [x \in {} |-> Null]

startsWith(str, prefix) ==
  /\ Len(prefix) <= Len(str)
  /\ SubSeq(str, 1, Len(prefix)) = prefix

(* `${sessionId}:${key}` *)
sessionKey(sessionId, key) == sessionId \o <<":">> \o <<key>>

MapSet(m, k, x) == [y \in DOMAIN m \cup {k} |-> IF y = k THEN x ELSE m[y]]

MapRemove(m, ks) == [y \in DOMAIN m \ ks |-> m[y]]

(* the record store() serialises into `${key}.json` *)
FileData(sessionId, key, value, time) ==
  [sessionId |-> sessionId, key |-> key, value |-> JSONstringify(value), timestamp |-> time]

FileText(sessionId, key, value, time) ==
  <<"{", FileData(sessionId, key, value, time), "}">>

FileParses(text) == text # Truncated /\ JSONparses(text[2].value)

FileValue(text) == JSONparse(text[2].value)

----------------------------------------------------------------------------
(* DataStore.store: the overlay is set first; then the session directory is *)
(* created if missing and the file written.  wr is what the file system     *)
(* does with the write: "ok", "mkdir" (the directory cannot be created),    *)
(* "open" (the file cannot be opened, nothing changes) or "write" (the      *)
(* file is opened and truncated, then the write fails).                    *)
WriteOutcomes == {"ok", "mkdir", "open", "write"}

(* store that replaces the files of the session by the one it writes *)
store_replacesSession(mem, dsk, sessionId, key, value, time, wr) ==
  LET mem1 == MapSet(MapRemove(mem, {mk \in DOMAIN mem : startsWith(mk, sessionId \o <<":">>)}),
                     sessionKey(sessionId, key), value)
      fresh == [mtime |-> time, files |-> EmptyMap]
      put(text) == MapSet(dsk, sessionId, [mtime |-> time, files |-> MapSet(EmptyMap, key, text)])
  IN  IF wr = "mkdir" /\ sessionId \notin DOMAIN dsk
        THEN [mem |-> mem1, dsk |-> dsk, threw |-> TRUE]
      ELSE IF wr = "open"
        THEN [mem |-> mem1, dsk |-> MapSet(dsk, sessionId, fresh), threw |-> TRUE]
      ELSE IF wr = "write"
        THEN [mem |-> mem1, dsk |-> put(Truncated), threw |-> TRUE]
      ELSE [mem |-> mem1, dsk |-> put(FileText(sessionId, key, value, time)),
            threw |-> FALSE]

(* store with the overlay left alone: the value only reaches the file *)
store_skipsOverlay(mem, dsk, sessionId, key, value, time, wr) ==
  LET hasDir == sessionId \in DOMAIN dsk
      dsk1 == IF hasDir THEN dsk
              ELSE MapSet(dsk, sessionId, [mtime |-> time, files |-> EmptyMap])
      dir == dsk1[sessionId]
      isNew == key \notin DOMAIN dir.files
      put(text) == MapSet(dsk1, sessionId,
                      [mtime |-> IF isNew THEN time ELSE dir.mtime,
                       files |-> MapSet(dir.files, key, text)])
  IN  IF wr = "mkdir" /\ ~hasDir
        THEN [mem |-> mem, dsk |-> dsk, threw |-> TRUE]
      ELSE IF wr = "open"
        THEN [mem |-> mem, dsk |-> dsk1, threw |-> TRUE]
      ELSE IF wr = "write"
        THEN [mem |-> mem, dsk |-> put(Truncated), threw |-> TRUE]
      ELSE [mem |-> mem, dsk |-> put(FileText(sessionId, key, value, time)),
            threw |-> FALSE]

(* store with a catch block that logs the error and does not rethrow it *)
store_swallowsError(mem, dsk, sessionId, key, value, time, wr) ==
  LET mem1 == MapSet(mem, sessionKey(sessionId, key), value)
      hasDir == sessionId \in DOMAIN dsk
      dsk1 == IF hasDir THEN dsk
              ELSE MapSet(dsk, sessionId, [mtime |-> time, files |-> EmptyMap])
      dir == dsk1[sessionId]
      isNew == key \notin DOMAIN dir.files
      put(text) == MapSet(dsk1, sessionId,
                      [mtime |-> IF isNew THEN time ELSE dir.mtime,
                       files |-> MapSet(dir.files, key, text)])
  IN  IF wr = "mkdir" /\ ~hasDir
        THEN [mem |-> mem1, dsk |-> dsk, threw |-> FALSE]
      ELSE IF wr = "open"
        THEN [mem |-> mem1, dsk |-> dsk1, threw |-> FALSE]
      ELSE IF wr = "write"
        THEN [mem |-> mem1, dsk |-> put(Truncated), threw |-> FALSE]
      ELSE [mem |-> mem1, dsk |-> put(FileText(sessionId, key, value, time)),
            threw |-> FALSE]

store(mem, dsk, sessionId, key, value, time, wr) ==
  LET mem1 == MapSet(mem, sessionKey(sessionId, key), value)
      hasDir == sessionId \in DOMAIN dsk
      dsk1 == IF hasDir THEN dsk
              ELSE MapSet(dsk, sessionId, [mtime |-> time, files |-> EmptyMap])
      dir == dsk1[sessionId]
      isNew == key \notin DOMAIN dir.files
      put(text) == MapSet(dsk1, sessionId,
                      [mtime |-> IF isNew THEN time ELSE dir.mtime,
                       files |-> MapSet(dir.files, key, text)])
  IN  IF wr = "mkdir" /\ ~hasDir
        THEN [mem |-> mem1, dsk |-> dsk, threw |-> TRUE]
      ELSE IF wr = "open"
        THEN [mem |-> mem1, dsk |-> dsk1, threw |-> TRUE]
      ELSE IF wr = "write"
        THEN [mem |-> mem1, dsk |-> put(Truncated), threw |-> TRUE]
      ELSE [mem |-> mem1, dsk |-> put(FileText(sessionId, key, value, time)),
            threw |-> FALSE]

(* get that answers from the file without filling the overlay *)
get_noCacheFill(mem, dsk, sessionId, key) ==
  LET sk == sessionKey(sessionId, key)
      hasFile == sessionId \in DOMAIN dsk /\ key \in DOMAIN dsk[sessionId].files
  IN  IF sk \in DOMAIN mem
        THEN [mem |-> mem, value |-> mem[sk]]
      ELSE IF hasFile /\ FileParses(dsk[sessionId].files[key])
        THEN [mem |-> mem, value |-> FileValue(dsk[sessionId].files[key])]
      ELSE [mem |-> mem, value |-> Null]

(* DataStore.get: overlay first, then the file, which fills the overlay.    *)
(* A file that does not parse is caught and answered as null.              *)
get(mem, dsk, sessionId, key) ==
  LET sk == sessionKey(sessionId, key)
      hasFile == sessionId \in DOMAIN dsk /\ key \in DOMAIN dsk[sessionId].files
  IN  IF sk \in DOMAIN mem
        THEN [mem |-> mem, value |-> mem[sk]]
      ELSE IF hasFile /\ FileParses(dsk[sessionId].files[key])
        THEN LET val == FileValue(dsk[sessionId].files[key])
             IN  [mem |-> MapSet(mem, sk, val), value |-> val]
      ELSE [mem |-> mem, value |-> Null]

(* getSessionData that answers the files it could parse *)
getSessionData_keepsParsedFiles(dsk, sessionId) ==
  IF sessionId \notin DOMAIN dsk THEN EmptyMap
  ELSE LET files == dsk[sessionId].files
       IN  [k \in {f \in DOMAIN files : FileParses(files[f])} |-> FileValue(files[k])]

(* DataStore.getSessionData: the parsed value of every file of the session  *)
(* directory; any file that does not parse makes the whole call answer {}.  *)
getSessionData(dsk, sessionId) ==
  IF sessionId \notin DOMAIN dsk THEN EmptyMap
  ELSE LET files == dsk[sessionId].files
       IN  IF \E k \in DOMAIN files : ~FileParses(files[k]) THEN EmptyMap
           ELSE [k \in DOMAIN files |-> FileValue(files[k])]

(* Math.round((completedSteps / steps.length) * 100) *)
MathRound100(n, d) == (2 * 100 * n + d) \div (2 * d)

(* sessionData.key read as a JavaScript property: undefined when missing *)
Prop(sessionData, key) == IF key \in DOMAIN sessionData THEN sessionData[key] ELSE Null

(* DataStore.getSessionStatus *)
getSessionStatus(dsk, sessionId) ==
  LET sessionData == getSessionData(dsk, sessionId)
      has(k) == Truthy(Prop(sessionData, k))
      steps == <<has("transcript_raw"), has("transcript_clean"),
                 has("soap_data"), has("pdf_path")>>
      completedSteps == Cardinality({i \in 1..Len(steps) : steps[i]})
  IN  [hasTranscriptRaw |-> steps[1],
       hasTranscriptClean |-> steps[2],
       hasSOAPData |-> steps[3],
       hasPDF |-> steps[4],
       hasOCRRaw |-> has("ocr_raw"),
       hasOCRClean |-> has("ocr_clean"),
       templateType |-> IF has("template_type") THEN sessionData["template_type"] ELSE Null,
       completionPercentage |-> MathRound100(completedSteps, Len(steps))]

(* DataStore.deleteSession: drops every overlay key that starts with        *)
(* `${sessionId}:`, then removes the directory; rmOk = FALSE is an rmSync   *)
(* that throws.                                                            *)
(* deleteSession that removes the directory and leaves the overlay *)
deleteSession_keepsOverlay(mem, dsk, sessionId, rmOk) ==
  IF sessionId \in DOMAIN dsk /\ ~rmOk
    THEN [mem |-> mem, dsk |-> dsk, threw |-> TRUE]
    ELSE [mem |-> mem, dsk |-> MapRemove(dsk, {sessionId}), threw |-> FALSE]

deleteSession(mem, dsk, sessionId, rmOk) ==
  LET keysToDelete == {mk \in DOMAIN mem : startsWith(mk, sessionId \o <<":">>)}
      mem1 == MapRemove(mem, keysToDelete)
  IN  IF sessionId \in DOMAIN dsk /\ ~rmOk
        THEN [mem |-> mem1, dsk |-> dsk, threw |-> TRUE]
        ELSE [mem |-> mem1, dsk |-> MapRemove(dsk, {sessionId}), threw |-> FALSE]

(* DataStore.listSessions: the directories of the data directory; a        *)
(* readdirSync that throws (readOk = FALSE) is caught and answered as [].   *)
listSessions(dsk, readOk) == IF readOk THEN DOMAIN dsk ELSE {}

(* DataStore.cleanupOldSessions: one try block around the whole loop.  The  *)
(* loop visits the sessions in the order readdir returned them (order);    *)
(* rmFails are the sessions whose directory cannot be removed.             *)
RECURSIVE cleanupLoop(_, _, _, _, _, _)
cleanupLoop(mem, dsk, order, cutoff, rmFails, cleanedCount) ==
  IF order = <<>> THEN [mem |-> mem, dsk |-> dsk, result |-> cleanedCount, threw |-> FALSE]
  ELSE LET sessionId == Head(order)
       IN  IF dsk[sessionId].mtime < cutoff
             THEN LET d == deleteSession(mem, dsk, sessionId, sessionId \notin rmFails)
                  IN  IF d.threw
                        THEN [mem |-> d.mem, dsk |-> d.dsk, result |-> 0, threw |-> TRUE]
                        ELSE cleanupLoop(d.mem, d.dsk, Tail(order), cutoff, rmFails,
                                         cleanedCount + 1)
             ELSE cleanupLoop(mem, dsk, Tail(order), cutoff, rmFails, cleanedCount)

cleanupOldSessions(mem, dsk, daysOld, time, order, rmFails) ==
  cleanupLoop(mem, dsk, order, time - daysOld, rmFails, 0)

(* the orders in which readdir may return a set of directories *)
Orders(S) == {o \in [1..Cardinality(S) -> S] : \A i, j \in DOMAIN o : i # j => o[i] # o[j]}

----------------------------------------------------------------------------
(* State machine of the store, driven by a direct caller *)

NoOp == [op |-> "init"]

Init ==
  /\ memoryStore = EmptyMap
  /\ disk = EmptyMap
  /\ now = 0
  /\ inflight = {}
  /\ generated = {}
  /\ lastOp = NoOp
  /\ ops = 0

(* the file of a pair, "none" when there is no such file *)
Record(dsk, sessionId, key) ==
  IF sessionId \in DOMAIN dsk /\ key \in DOMAIN dsk[sessionId].files
    THEN dsk[sessionId].files[key] ELSE <<"none">>

(* a write outcome the file system can produce in the current state *)
CanHappen(dsk, sessionId, wr) == wr = "mkdir" => sessionId \notin DOMAIN dsk

Store(max, sessionId, key, value, wr) ==
  /\ ops < max
  /\ CanHappen(disk, sessionId, wr)
  /\ LET r == store(memoryStore, disk, sessionId, key, value, now, wr)
     IN  /\ memoryStore' = r.mem
         /\ disk' = r.dsk
         /\ lastOp' = [op |-> "store", sessionId |-> sessionId, key |-> key,
                       value |-> value, wr |-> wr, threw |-> r.threw,
                       before |-> get(memoryStore, disk, sessionId, key).value,
                       existed |-> Record(disk, sessionId, key) # <<"none">>]
  /\ ops' = ops + 1
  /\ UNCHANGED <<now, inflight, generated>>

Get(max, sessionId, key) ==
  /\ ops < max
  /\ LET r == get(memoryStore, disk, sessionId, key)
     IN  /\ memoryStore' = r.mem
         /\ lastOp' = [op |-> "get", sessionId |-> sessionId, key |-> key,
                       result |-> r.value,
                       hit |-> sessionKey(sessionId, key) \in DOMAIN memoryStore]
  /\ ops' = ops + 1
  /\ UNCHANGED <<disk, now, inflight, generated>>

GetSessionData(max, sessionId) ==
  /\ ops < max
  /\ lastOp' = [op |-> "getSessionData", sessionId |-> sessionId,
                result |-> getSessionData(disk, sessionId)]
  /\ ops' = ops + 1
  /\ UNCHANGED <<memoryStore, disk, now, inflight, generated>>

DeleteSession(max, sessionId, rmOk) ==
  /\ ops < max
  /\ LET r == deleteSession(memoryStore, disk, sessionId, rmOk)
     IN  /\ memoryStore' = r.mem
         /\ disk' = r.dsk
         /\ lastOp' = [op |-> "deleteSession", sessionId |-> sessionId,
                       threw |-> r.threw,
                       hadData |-> sessionId \in DOMAIN disk]
  /\ generated' = {}
  /\ ops' = ops + 1
  /\ UNCHANGED <<now, inflight>>

GetSessionStatus(max, sessionId) ==
  /\ ops < max
  /\ lastOp' = [op |-> "getSessionStatus", sessionId |-> sessionId,
                result |-> getSessionStatus(disk, sessionId)]
  /\ ops' = ops + 1
  /\ UNCHANGED <<memoryStore, disk, now, inflight, generated>>

ListSessions(max, readOk) ==
  /\ ops < max
  /\ lastOp' = [op |-> "listSessions", readOk |-> readOk,
                result |-> listSessions(disk, readOk)]
  /\ ops' = ops + 1
  /\ UNCHANGED <<memoryStore, disk, now, inflight, generated>>

(* cleanupOldSessions(daysOld = 7) *)
RetentionDays == 7

CleanupOldSessions(max, daysOld, order, rmFails) ==
  /\ ops < max
  /\ LET r == cleanupOldSessions(memoryStore, disk, daysOld, now, order, rmFails)
     IN  /\ memoryStore' = r.mem
         /\ disk' = r.dsk
         /\ lastOp' = [op |-> "cleanupOldSessions", result |-> r.result,
                       threw |-> r.threw, rmFails |-> rmFails,
                       qualified |-> {s \in DOMAIN disk : disk[s].mtime < now - daysOld},
                       listed |-> DOMAIN disk]
  /\ ops' = ops + 1
  /\ UNCHANGED <<now, inflight, generated>>

(* the clock advances by whole days *)
Tick(max, days) ==
  /\ ops < max
  /\ now' = now + days
  /\ lastOp' = [op |-> "tick", days |-> days]
  /\ ops' = ops + 1
  /\ UNCHANGED <<memoryStore, disk, inflight, generated>>

(* The process ends and a new one is started on the same data directory:  *)
(* the constructor makes an empty overlay; the requests in flight are lost. *)
Restart(max) ==
  /\ ops < max
  /\ memoryStore' = EmptyMap
  /\ inflight' = {}
  /\ lastOp' = [op |-> "restart"]
  /\ ops' = ops + 1
  /\ UNCHANGED <<disk, now, generated>>

(* The process ends inside store, after memoryStore.set and before          *)
(* writeFileSync opens the file: at = "mkdir" before the directory is       *)
(* made, "open" after it.  A new process is started.                        *)
CrashInStore(max, sessionId, key, value, at) ==
  /\ ops < max
  /\ CanHappen(disk, sessionId, at)
  /\ LET r == store(memoryStore, disk, sessionId, key, value, now, at)
     IN  disk' = r.dsk
  /\ memoryStore' = EmptyMap
  /\ inflight' = {}
  /\ lastOp' = [op |-> "crashInStore", sessionId |-> sessionId, key |-> key,
                value |-> value, at |-> at]
  /\ ops' = ops + 1
  /\ UNCHANGED <<now, generated>>

----------------------------------------------------------------------------
(* The stage routes of the API server.  A handler runs without interruption *)
(* from one suspension on a collaborator to the next: the awaits on the     *)
(* store resolve without leaving the handler to another request.           *)

(* a request that carries no session_id *)
NoSession == <<>>

(* SOAPGenerator.templates: the keys of the template table *)
Templates == {"Practice SOAP", "Pediatrics SOAP", "Cardiology SOAP", "Orthopedics SOAP",
              "Mental Health SOAP", "Dermatology SOAP", "Emergency SOAP", "Neurology SOAP"}

(* the names every JavaScript object inherits from Object.prototype, each   *)
(* with a value that is truthy                                             *)
ObjectPrototypeKeys == {"constructor", "__proto__"}

(* const template = this.templates[templateType]; if (!template) throw:     *)
(* a property read on the table, which also finds the inherited names       *)
templateFound(templateType) == templateType \in Templates \cup ObjectPrototypeKeys

(* SOAPGenerator.isValidTemplate: templateType in this.templates *)
isValidTemplate(templateType) == templateType \in Templates \cup ObjectPrototypeKeys

(* validateSOAPData: the fields a generated document must carry *)
requiredFields == {"SOAP_Note", "summary", "prescription", "followUp", "nextSteps"}
requiredSOAPFields == {"SOAP_Note.Subjective", "SOAP_Note.Objective",
                       "SOAP_Note.Assessment", "SOAP_Note.Plan"}

(* a document of the generation collaborator: the fields it carries *)
Doc(fields, rev) == Obj([fields |-> fields, rev |-> rev])
FullDoc(rev) == Doc(requiredFields \cup requiredSOAPFields, rev)

(* validateSOAPData that checks the main fields only *)
validateSOAPData_mainFieldsOnly(soapData) ==
  \A f \in requiredFields : f \in soapData.v.fields

validateSOAPData(soapData) ==
  /\ \A f \in requiredFields : f \in soapData.v.fields
  /\ \A f \in requiredSOAPFields : f \in soapData.v.fields

(* the file reference generatePDF resolves with *)
pdfPath(sessionId) ==
  Str(IF sessionId = SA THEN "pdfs/clinical-summary-a.pdf" ELSE "pdfs/clinical-summary-a:b.pdf")

(* `await dataStore.store(...)` several times in a row: the first store     *)
(* that throws ends the handler in its catch block.                         *)
RECURSIVE storeAll(_, _, _, _, _, _)
storeAll(mem, dsk, sessionId, kvs, time, wrs) ==
  IF kvs = <<>> THEN [mem |-> mem, dsk |-> dsk, threw |-> FALSE]
  ELSE LET r == store(mem, dsk, sessionId, Head(kvs)[1], Head(kvs)[2], time, Head(wrs))
       IN  IF r.threw
             THEN [mem |-> r.mem, dsk |-> r.dsk, threw |-> TRUE,
                   failedKey |-> Head(kvs)[1], diskBefore |-> dsk]
             ELSE storeAll(r.mem, r.dsk, sessionId, Tail(kvs), time, Tail(wrs))

(* the outcomes of n durable writes in a row, up to the first that fails *)
WriteSeqs(n, dsk, sessionId) ==
  {[i \in 1..n |-> "ok"]} \cup
  {[i \in 1..n |-> IF i = at THEN wr ELSE "ok"] :
      at \in 1..n,
      wr \in {w \in WriteOutcomes \ {"ok"} :
                 w = "mkdir" => (sessionId \notin DOMAIN dsk)}}

WritesHappen(wrs, dsk, sessionId) ==
  \A i \in DOMAIN wrs : wrs[i] = "mkdir" => (i = 1 /\ sessionId \notin DOMAIN dsk)

(* the answer of a collaborator that failed *)
CollabError == [t |-> "error", v |-> "error"]

(* what a handler answers after its stores; status 0 is a request that     *)
(* is suspended and has not answered yet                                  *)
Answer(r) == IF r.threw THEN 500 ELSE 200

StoreLog(r, sessionId) ==
  IF r.threw THEN [sessionId |-> sessionId, key |-> r.failedKey, diskBefore |-> r.diskBefore]
  ELSE [sessionId |-> NoSession]

Suspend(req) == inflight' = inflight \cup {req @@ [id |-> ops]}

(* what the last step was: a handler that answered before any store ...     *)
Answered(op, phase, status, sessionId) ==
  [op |-> op, phase |-> phase, status |-> status, sessionId |-> sessionId,
   wrs |-> <<>>, failed |-> [sessionId |-> NoSession]]

(* ... or after its stores, whose write outcomes were wrs *)
Stored(op, phase, sessionId, wrs, r) ==
  [op |-> op, phase |-> phase, status |-> Answer(r), sessionId |-> sessionId,
   wrs |-> wrs, failed |-> StoreLog(r, sessionId)]

(* if (!result.success) return res.status(500) *)
(* the check of the collaborator's result left out *)
collaboratorFailed_neverChecked(result) == FALSE

collaboratorFailed(result) == result = CollabError

(* POST /api/audio-upload, up to the call of the transcription service.     *)
(* file: "none" (no file in the request), "bad" (a file transcribeAudio     *)
(* rejects before calling the service) or "audio".                         *)
AudioUploadStart(max, file) ==
  /\ ops < max
  /\ IF file = "audio"
       THEN /\ Cardinality(inflight) < MaxInflight
            /\ Suspend([kind |-> "audio"])
            /\ lastOp' = Answered("audioUpload", "start", 0, NoSession) @@ [file |-> file]
       ELSE /\ inflight' = inflight
            /\ lastOp' = Answered("audioUpload", "start",
                                  IF file = "none" THEN 400 ELSE 500, NoSession)
                            @@ [file |-> file]
  /\ ops' = ops + 1
  /\ UNCHANGED <<memoryStore, disk, now, generated>>

(* POST /api/audio-upload, from the answer of the transcription service:    *)
(* CollabError, or the transcript.  sessionId is the uuid drawn for the     *)
(* session.                                                                *)
AudioUploadFinish(max, req, result, sessionId, wrs) ==
  /\ ops < max
  /\ req \in inflight /\ req.kind = "audio"
  /\ inflight' = inflight \ {req}
  /\ IF collaboratorFailed(result)
       THEN /\ lastOp' = Answered("audioUpload", "finish", 500, NoSession)
                            @@ [result |-> result]
            /\ UNCHANGED <<memoryStore, disk>>
       ELSE /\ sessionId \notin DOMAIN disk
            /\ \A k \in Keys : sessionKey(sessionId, k) \notin DOMAIN memoryStore
            /\ WritesHappen(wrs, disk, sessionId)
            /\ LET r == storeAll(memoryStore, disk, sessionId,
                                 <<(<<"transcript_raw", result>>),
                                   (<<"audio_file", Str("uploads/audio")>>)>>, now, wrs)
               IN  /\ memoryStore' = r.mem
                   /\ disk' = r.dsk
                   /\ lastOp' = Stored("audioUpload", "finish", sessionId, wrs, r)
                                   @@ [result |-> result]
  /\ ops' = ops + 1
  /\ UNCHANGED <<now, generated>>

(* !x || typeof x !== 'string' *)
(* the check of a body field that accepts every string *)
nonEmptyString_anyString(x) == x.t = "string"

nonEmptyString(x) == x.t = "string" /\ Truthy(x)

(* POST /api/transcript/confirm *)
TranscriptConfirm(max, sessionId, transcript_clean, wrs) ==
  /\ ops < max
  /\ IF sessionId = NoSession \/ ~nonEmptyString(transcript_clean)
       THEN /\ lastOp' = Answered("transcriptConfirm", "finish", 400, sessionId)
                            @@ [transcript_clean |-> transcript_clean]
            /\ UNCHANGED <<memoryStore, disk>>
       ELSE /\ WritesHappen(wrs, disk, sessionId)
            /\ LET r == storeAll(memoryStore, disk, sessionId,
                                 <<(<<"transcript_clean", transcript_clean>>)>>, now, wrs)
               IN  /\ memoryStore' = r.mem
                   /\ disk' = r.dsk
                   /\ lastOp' = Stored("transcriptConfirm", "finish", sessionId, wrs, r)
                                   @@ [transcript_clean |-> transcript_clean]
  /\ ops' = ops + 1
  /\ UNCHANGED <<now, inflight, generated>>

(* POST /api/soap/generate, up to the call of the generation service: the  *)
(* body is validated, then generateSOAP looks the template up.              *)
SoapGenerateStart(max, sessionId, transcript_clean, template_type) ==
  /\ ops < max
  /\ IF sessionId = NoSession \/ ~nonEmptyString(transcript_clean)
          \/ ~nonEmptyString(template_type)
       THEN /\ inflight' = inflight
            /\ lastOp' = Answered("soapGenerate", "start", 400, sessionId)
     ELSE IF ~templateFound(template_type.v)
       THEN /\ inflight' = inflight
            /\ lastOp' = Answered("soapGenerate", "start", 500, sessionId)
     ELSE /\ Cardinality(inflight) < MaxInflight
          /\ Suspend([kind |-> "generate", sessionId |-> sessionId,
                      template_type |-> template_type])
          /\ lastOp' = Answered("soapGenerate", "start", 0, sessionId)
  /\ ops' = ops + 1
  /\ UNCHANGED <<memoryStore, disk, now, generated>>

(* POST /api/soap/generate, from the answer of the generation service:      *)
(* CollabError (the call or JSON.parse threw) or the parsed document,       *)
(* which validateSOAPData checks before the two stores.                    *)
SoapGenerateFinish(max, req, response, wrs) ==
  /\ ops < max
  /\ req \in inflight /\ req.kind = "generate"
  /\ inflight' = inflight \ {req}
  /\ IF response = CollabError \/ ~validateSOAPData(response)
       THEN /\ lastOp' = Answered("soapGenerate", "finish", 500, req.sessionId)
                            @@ [response |-> response, template_type |-> req.template_type]
            /\ UNCHANGED <<memoryStore, disk, generated>>
       ELSE /\ WritesHappen(wrs, disk, req.sessionId)
            /\ LET r == storeAll(memoryStore, disk, req.sessionId,
                                 <<(<<"soap_data", response>>),
                                   (<<"template_type", req.template_type>>)>>, now, wrs)
               IN  /\ memoryStore' = r.mem
                   /\ disk' = r.dsk
                   /\ generated' = IF r.threw THEN generated \ {req.sessionId}
                                   ELSE generated \cup {req.sessionId}
                   /\ lastOp' = Stored("soapGenerate", "finish", req.sessionId, wrs, r)
                                   @@ [response |-> response,
                                       template_type |-> req.template_type]
  /\ ops' = ops + 1
  /\ UNCHANGED now

(* if (!soapData) return res.status(404) *)
(* the PDF route without its check of soap_data *)
soapDataMissing_neverChecked(soapData, templateType) == FALSE

soapDataMissing(soapData, templateType) == ~Truthy(soapData)

(* GET /api/pdf/download, up to the rendering: both artifacts are read,     *)
(* then generatePDF starts writing the file.                               *)
PdfDownloadStart(max, sessionId) ==
  /\ ops < max
  /\ IF sessionId = NoSession
       THEN /\ lastOp' = Answered("pdfDownload", "start", 400, sessionId)
            /\ UNCHANGED <<memoryStore, inflight>>
       ELSE LET g1 == get(memoryStore, disk, sessionId, "soap_data")
                g2 == get(g1.mem, disk, sessionId, "template_type")
                read == [soapData |-> g1.value, templateType |-> g2.value,
                         wasGenerated |-> sessionId \in generated]
            IN  /\ memoryStore' = g2.mem
                /\ IF soapDataMissing(g1.value, g2.value)
                     THEN /\ inflight' = inflight
                          /\ lastOp' = Answered("pdfDownload", "start", 404, sessionId) @@ read
                     ELSE /\ Cardinality(inflight) < MaxInflight
                          /\ Suspend([kind |-> "render", sessionId |-> sessionId,
                                      soapData |-> g1.value, templateType |-> g2.value])
                          /\ lastOp' = Answered("pdfDownload", "start", 0, sessionId) @@ read
  /\ ops' = ops + 1
  /\ UNCHANGED <<disk, now, generated>>

(* GET /api/pdf/download, from the end of the rendering: the stream         *)
(* finished (finish = TRUE) or failed, then pdf_path is stored.             *)
PdfDownloadFinish(max, req, finish, wrs) ==
  /\ ops < max
  /\ req \in inflight /\ req.kind = "render"
  /\ inflight' = inflight \ {req}
  /\ IF ~finish
       THEN /\ lastOp' = Answered("pdfDownload", "finish", 500, req.sessionId)
                            @@ [rendered |-> FALSE]
            /\ UNCHANGED <<memoryStore, disk>>
       ELSE /\ WritesHappen(wrs, disk, req.sessionId)
            /\ LET r == storeAll(memoryStore, disk, req.sessionId,
                                 <<(<<"pdf_path", pdfPath(req.sessionId)>>)>>, now, wrs)
               IN  /\ memoryStore' = r.mem
                   /\ disk' = r.dsk
                   /\ lastOp' = Stored("pdfDownload", "finish", req.sessionId, wrs, r)
                                   @@ [rendered |-> TRUE]
  /\ ops' = ops + 1
  /\ UNCHANGED <<now, generated>>

(* POST /api/ocr-upload, up to the call of the OCR engine.  file: "none",   *)
(* "bad" (a file extractText rejects before calling the engine) or "image". *)
OcrUploadStart(max, file) ==
  /\ ops < max
  /\ IF file = "image"
       THEN /\ Cardinality(inflight) < MaxInflight
            /\ Suspend([kind |-> "ocr"])
            /\ lastOp' = Answered("ocrUpload", "start", 0, NoSession) @@ [file |-> file]
       ELSE /\ inflight' = inflight
            /\ lastOp' = Answered("ocrUpload", "start",
                                  IF file = "none" THEN 400 ELSE 500, NoSession)
                            @@ [file |-> file]
  /\ ops' = ops + 1
  /\ UNCHANGED <<memoryStore, disk, now, generated>>

(* POST /api/ocr-upload, from the answer of the OCR engine: CollabError or  *)
(* the cleaned text, which can be empty.  ocrSessionId is the uuid drawn.   *)
OcrUploadFinish(max, req, result, ocrSessionId, wrs) ==
  /\ ops < max
  /\ req \in inflight /\ req.kind = "ocr"
  /\ inflight' = inflight \ {req}
  /\ IF collaboratorFailed(result)
       THEN /\ lastOp' = Answered("ocrUpload", "finish", 500, NoSession)
                            @@ [result |-> result]
            /\ UNCHANGED <<memoryStore, disk>>
       ELSE /\ ocrSessionId \notin DOMAIN disk
            /\ \A k \in Keys : sessionKey(ocrSessionId, k) \notin DOMAIN memoryStore
            /\ WritesHappen(wrs, disk, ocrSessionId)
            /\ LET r == storeAll(memoryStore, disk, ocrSessionId,
                                 <<(<<"ocr_raw", result>>),
                                   (<<"image_file", Str("uploads/image")>>),
                                   (<<"ocr_confidence", Num("90")>>)>>, now, wrs)
               IN  /\ memoryStore' = r.mem
                   /\ disk' = r.dsk
                   /\ lastOp' = Stored("ocrUpload", "finish", ocrSessionId, wrs, r)
                                   @@ [result |-> result]
  /\ ops' = ops + 1
  /\ UNCHANGED <<now, generated>>

(* POST /api/ocr/confirm *)
OcrConfirm(max, ocr_session_id, ocr_clean, wrs) ==
  /\ ops < max
  /\ IF ocr_session_id = NoSession \/ ~nonEmptyString(ocr_clean)
       THEN /\ lastOp' = Answered("ocrConfirm", "finish", 400, ocr_session_id)
            /\ UNCHANGED <<memoryStore, disk>>
       ELSE /\ WritesHappen(wrs, disk, ocr_session_id)
            /\ LET r == storeAll(memoryStore, disk, ocr_session_id,
                                 <<(<<"ocr_clean", ocr_clean>>)>>, now, wrs)
               IN  /\ memoryStore' = r.mem
                   /\ disk' = r.dsk
                   /\ lastOp' = Stored("ocrConfirm", "finish", ocr_session_id, wrs, r)
  /\ ops' = ops + 1
  /\ UNCHANGED <<now, inflight, generated>>

(* a || b *)
(* a || b that always answers b *)
orElse_alwaysSecond(a, b) == b

orElse(a, b) == IF Truthy(a) THEN a ELSE b

(* if (!transcriptClean || !soapData) return res.status(404) *)
(* the check of the final response without its test of the transcript *)
incompleteWorkflow_soapDataOnly(transcriptClean, soapData) == ~Truthy(soapData)

incompleteWorkflow(transcriptClean, soapData) ==
  ~Truthy(transcriptClean) \/ ~Truthy(soapData)

(* GET /api/final-response: four reads on the session, then the OCR text    *)
(* from the OCR session when one is named, then the check and the view.     *)
(* reads are the pairs the handler asked the store for.                     *)
FinalResponse(max, sessionId, ocrSessionId) ==
  /\ ops < max
  /\ IF sessionId = NoSession
       THEN /\ lastOp' = Answered("finalResponse", "finish", 400, sessionId)
            /\ UNCHANGED memoryStore
       ELSE LET g1 == get(memoryStore, disk, sessionId, "transcript_clean")
                g2 == get(g1.mem, disk, sessionId, "soap_data")
                g3 == get(g2.mem, disk, sessionId, "pdf_path")
                g4 == get(g3.mem, disk, sessionId, "template_type")
                named == ocrSessionId # NoSession
                o1 == IF named THEN get(g4.mem, disk, ocrSessionId, "ocr_clean")
                      ELSE [mem |-> g4.mem, value |-> Null]
                readsRaw == named /\ ~Truthy(o1.value)
                o2 == IF readsRaw THEN get(o1.mem, disk, ocrSessionId, "ocr_raw")
                      ELSE [mem |-> o1.mem, value |-> Null]
                ocrText == IF named THEN orElse(o1.value, o2.value) ELSE Null
                reads == {<<sessionId, k>> : k \in {"transcript_clean", "soap_data",
                                                     "pdf_path", "template_type"}}
                         \cup (IF named THEN {<<ocrSessionId, "ocr_clean">>} ELSE {})
                         \cup (IF readsRaw THEN {<<ocrSessionId, "ocr_raw">>} ELSE {})
                status == IF incompleteWorkflow(g1.value, g2.value) THEN 404 ELSE 200
            IN  /\ memoryStore' = o2.mem
                /\ lastOp' = Answered("finalResponse", "finish", status, sessionId)
                                @@ [ocrSessionId |-> ocrSessionId, reads |-> reads,
                                    transcript |-> g1.value, soapData |-> g2.value,
                                    pdf_path |-> g3.value, template_type |-> g4.value,
                                    ocr_text |-> ocrText]
  /\ ops' = ops + 1
  /\ UNCHANGED <<disk, now, inflight, generated>>

----------------------------------------------------------------------------
(* The template selector *)

(* String.prototype.trim: the text without the white space at its ends *)
Whitespace == {" ", "\n"}

RECURSIVE trim(_)
trim(str) ==
  IF str = <<>> THEN str
  ELSE IF Head(str) \in Whitespace THEN trim(Tail(str))
  ELSE IF str[Len(str)] \in Whitespace THEN trim(SubSeq(str, 1, Len(str) - 1))
  ELSE str

(* promptForTextCorrection up to rl.on('line', handleLine): the promise is  *)
(* pending with an empty text and no empty line counted.  lines is the      *)
(* history of the lines read.                                              *)
PromptForTextCorrection(max, originalText) ==
  /\ ops < max
  /\ inflight = {}
  /\ Suspend([kind |-> "prompt", originalText |-> originalText,
              correctedText |-> <<>>, emptyLineCount |-> 0, lines |-> <<>>])
  /\ lastOp' = [op |-> "prompt", originalText |-> originalText]
  /\ ops' = ops + 1
  /\ UNCHANGED <<memoryStore, disk, now, generated>>

(* the prompt ending on the first empty line *)
enterPressedTwice_onFirstEmptyLine(emptyLineCount) == emptyLineCount >= 1

(* if (emptyLineCount >= 2): the user pressed Enter twice *)
enterPressedTwice(emptyLineCount) == emptyLineCount >= 2

(* handleLine: one line read from the terminal *)
HandleLine(max, req, line) ==
  /\ ops < max
  /\ req \in inflight /\ req.kind = "prompt"
  /\ LET lines == Append(req.lines, line)
     IN  IF trim(line) = <<>>
           THEN IF enterPressedTwice(req.emptyLineCount + 1)
                  THEN /\ inflight' = inflight \ {req}
                       /\ lastOp' = [op |-> "promptForTextCorrection",
                                     originalText |-> req.originalText, lines |-> lines,
                                     finalText |-> IF trim(req.correctedText) # <<>>
                                                     THEN trim(req.correctedText)
                                                     ELSE req.originalText]
                  ELSE /\ inflight' = (inflight \ {req}) \cup
                                {[req EXCEPT !.emptyLineCount = @ + 1,
                                             !.correctedText = @ \o <<"\n">>,
                                             !.lines = lines]}
                       /\ lastOp' = [op |-> "handleLine", line |-> line]
           ELSE /\ inflight' = (inflight \ {req}) \cup
                        {[req EXCEPT !.emptyLineCount = 0,
                                     !.correctedText = @ \o line \o <<"\n">>,
                                     !.lines = lines]}
                /\ lastOp' = [op |-> "handleLine", line |-> line]
  /\ ops' = ops + 1
  /\ UNCHANGED <<memoryStore, disk, now, generated>>
(* SOAP_TEMPLATES: the keys of the table, in the order Object.keys gives    *)
SOAP_TEMPLATES ==
  <<"Practice SOAP", "Pediatrics SOAP", "Cardiology SOAP", "Orthopedics SOAP",
    "Mental Health SOAP", "Dermatology SOAP", "Gynecology SOAP", "ENT SOAP",
    "Neurology SOAP", "Gastro SOAP", "Pulmonology SOAP", "Emergency SOAP",
    "Diabetology SOAP", "Obstetrics SOAP", "Oncology SOAP", "Nephrology SOAP",
    "Urology SOAP", "Rehab SOAP">>

getAvailableTemplates == SOAP_TEMPLATES

(* the decimal digits and their values *)
Digits == {"0", "1", "2", "3", "4", "5", "6", "7", "8", "9"}

DigitValue(c) ==
  CASE c = "0" -> 0 [] c = "1" -> 1 [] c = "2" -> 2 [] c = "3" -> 3 [] c = "4" -> 4
    [] c = "5" -> 5 [] c = "6" -> 6 [] c = "7" -> 7 [] c = "8" -> 8 [] c = "9" -> 9

(* the value of a sequence of digits *)
RECURSIVE DecimalValue(_)
DecimalValue(ds) ==
  IF ds = <<>> THEN 0
  ELSE 10 * DecimalValue(SubSeq(ds, 1, Len(ds) - 1)) + DigitValue(ds[Len(ds)])

(* the longest run of digits at the head of a string *)
RECURSIVE DigitPrefix(_)
DigitPrefix(str) ==
  IF str = <<>> \/ Head(str) \notin Digits THEN <<>>
  ELSE <<Head(str)>> \o DigitPrefix(Tail(str))

(* the string without the white space at its head *)
RECURSIVE TrimStart(_)
TrimStart(str) ==
  IF str # <<>> /\ Head(str) = " " THEN TrimStart(Tail(str)) ELSE str

(* parseInt(selection, 10): white space is skipped, a sign is read, then    *)
(* the digits up to the first character that is not one; without a digit    *)
(* the result is NaN.                                                      *)
parseInt10(str) ==
  LET t == TrimStart(str)
      signed == t # <<>> /\ Head(t) \in {"-", "+"}
      ds == DigitPrefix(IF signed THEN Tail(t) ELSE t)
  IN  IF ds = <<>> THEN [isNaN |-> TRUE, n |-> 0]
      ELSE [isNaN |-> FALSE,
            n |-> IF signed /\ Head(t) = "-" THEN 0 - DecimalValue(ds) ELSE DecimalValue(ds)]

validateTemplateSelection(selection) ==
  LET templates == getAvailableTemplates
      selectionNum == parseInt10(selection)
  IN  IF selectionNum.isNaN \/ selectionNum.n < 1 \/ selectionNum.n > Len(templates)
        THEN [valid |-> FALSE, error |-> "Invalid selection"]
        ELSE [valid |-> TRUE, templateKey |-> templates[selectionNum.n]]

ValidateTemplateSelection(max, selection) ==
  /\ ops < max
  /\ lastOp' = [op |-> "validateTemplateSelection", selection |-> selection,
                result |-> validateTemplateSelection(selection)]
  /\ ops' = ops + 1
  /\ UNCHANGED <<memoryStore, disk, now, inflight, generated>>

----------------------------------------------------------------------------
(* Spec: the store called directly, two sessions of which one id is a       *)
(* prefix of the other, with every outcome of the durable write.           *)
StoreKeys == {"transcript_raw", "soap_data"}

Next ==
  \/ \E s \in Sessions, k \in StoreKeys, v \in Values, wr \in WriteOutcomes :
          Store(MaxOps, s, k, v, wr)
  \/ \E s \in Sessions, k \in StoreKeys : Get(MaxOps, s, k)
  \/ \E s \in Sessions : GetSessionData(MaxOps, s)
  \/ \E s \in Sessions, rmOk \in BOOLEAN : DeleteSession(MaxOps, s, rmOk)
  \/ \E readOk \in BOOLEAN : ListSessions(MaxOps, readOk)

Spec == Init /\ [][Next]_vars

(* SpecStatus: one session, every key that the status view reads *)
StatusValues == {EmptyStr, Str("x")}

NextStatus ==
  \/ \E k \in StatusKeys, v \in StatusValues, wr \in {"ok", "write"} : Store(MaxStatusOps, SA, k, v, wr)
  \/ GetSessionStatus(MaxStatusOps, SA)
  \/ DeleteSession(MaxStatusOps, SA, TRUE)

SpecStatus == Init /\ [][NextStatus]_vars

(* SpecSweep: sessions that age, and the retention sweep over them *)
TickDays == {1, 8}

NextSweep ==
  \/ \E s \in Sessions, wr \in {"ok", "open"} : Store(MaxSweepOps, s, "transcript_raw", Str("x"), wr)
  \/ \E d \in TickDays : Tick(MaxSweepOps, d)
  \/ \E readOk \in BOOLEAN : ListSessions(MaxSweepOps, readOk)
  \/ \E order \in Orders(listSessions(disk, TRUE)), rmFails \in SUBSET listSessions(disk, TRUE) :
           CleanupOldSessions(MaxSweepOps, RetentionDays, order, rmFails)

SpecSweep == Init /\ [][NextSweep]_vars

(* SpecPipeline: the routes, called in any order on two sessions, with the  *)
(* answers of the collaborators and the outcomes of the durable writes      *)
(* drawn by the environment, and the operator deleting sessions.           *)
RequestSessions == {SA, NoSession}
RequestTexts == {Str("x"), EmptyStr, Num("5")}
RequestTemplates == {Str("Cardiology SOAP"), Str("Holistic SOAP"), Str("constructor")}
Transcripts == {Str("x"), EmptyStr}
Responses == {CollabError, FullDoc("r1"),
              Doc((requiredFields \cup requiredSOAPFields) \ {"SOAP_Note.Plan"}, "r2"),
              Doc((requiredFields \cup requiredSOAPFields) \ {"nextSteps"}, "r3")}

Pending(kind) == {req \in inflight : req.kind = kind}

NextPipeline ==
  \/ \E file \in {"none", "bad", "audio"} : AudioUploadStart(MaxStageOps, file)
  \/ \E req \in Pending("audio"), result \in {CollabError} \cup Transcripts, s \in Sessions :
        \E wrs \in WriteSeqs(2, disk, s) : AudioUploadFinish(MaxStageOps, req, result, s, wrs)
  \/ \E s \in RequestSessions, text \in RequestTexts :
        \E wrs \in WriteSeqs(1, disk, s) : TranscriptConfirm(MaxStageOps, s, text, wrs)
  \/ \E s \in RequestSessions, text \in RequestTexts, tmpl \in RequestTemplates :
        SoapGenerateStart(MaxStageOps, s, text, tmpl)
  \/ \E req \in Pending("generate"), response \in Responses :
        \E wrs \in WriteSeqs(2, disk, req.sessionId) :
           SoapGenerateFinish(MaxStageOps, req, response, wrs)
  \/ \E s \in RequestSessions : PdfDownloadStart(MaxStageOps, s)
  \/ \E req \in Pending("render"), finish \in BOOLEAN :
        \E wrs \in WriteSeqs(1, disk, req.sessionId) :
           PdfDownloadFinish(MaxStageOps, req, finish, wrs)
  \/ \E s \in Sessions : DeleteSession(MaxStageOps, s, TRUE)

SpecPipeline == Init /\ [][NextPipeline]_vars

(* SpecRestart: the store called directly by a process that can end, in or  *)
(* out of a store, and be started again on the same data directory.        *)
NextRestart ==
  \/ \E s \in Sessions, k \in StoreKeys, v \in Values, wr \in WriteOutcomes :
          Store(MaxRestartOps, s, k, v, wr)
  \/ \E s \in Sessions, k \in StoreKeys, v \in Values, at \in {"mkdir", "open"} :
          CrashInStore(MaxRestartOps, s, k, v, at)
  \/ Restart(MaxRestartOps)
  \/ \E s \in Sessions, k \in StoreKeys : Get(MaxRestartOps, s, k)
  \/ \E s \in Sessions, rmOk \in BOOLEAN : DeleteSession(MaxRestartOps, s, rmOk)

SpecRestart == Init /\ [][NextRestart]_vars

(* SpecWorkflow: one primary session taken through the stages, with the     *)
(* OCR branch and the final response; the durable writes succeed.           *)
OkWrites(n) == [i \in 1..n |-> "ok"]

OcrTexts == {Str("raw"), EmptyStr}

NextWorkflow ==
  \/ \E text \in RequestTexts, wrs \in WriteSeqs(1, disk, SA) :
        TranscriptConfirm(MaxWorkflowOps, SA, text, wrs)
  \/ SoapGenerateStart(MaxWorkflowOps, SA, Str("x"), Str("Cardiology SOAP"))
  \/ \E req \in Pending("generate"), response \in {CollabError, FullDoc("r1"), FullDoc("r2")} :
        SoapGenerateFinish(MaxWorkflowOps, req, response, OkWrites(2))
  \/ PdfDownloadStart(MaxWorkflowOps, SA)
  \/ \E req \in Pending("render"), finish \in BOOLEAN :
        PdfDownloadFinish(MaxWorkflowOps, req, finish, OkWrites(1))
  \/ \E file \in {"none", "image"} : OcrUploadStart(MaxWorkflowOps, file)
  \/ \E req \in Pending("ocr"), result \in {CollabError} \cup OcrTexts :
        OcrUploadFinish(MaxWorkflowOps, req, result, SAB, OkWrites(3))
  \/ \E o \in {SAB, NoSession}, text \in {Str("clean"), EmptyStr} :
        OcrConfirm(MaxWorkflowOps, o, text, OkWrites(1))
  \/ \E s \in RequestSessions, o \in {SAB, NoSession} : FinalResponse(MaxWorkflowOps, s, o)

SpecWorkflow == Init /\ [][NextWorkflow]_vars

(* SpecIngest: the two upload routes, with every answer of their            *)
(* collaborators and every outcome of the durable writes.                   *)
NextIngest ==
  \/ \E file \in {"none", "bad", "audio"} : AudioUploadStart(MaxIngestOps, file)
  \/ \E req \in Pending("audio"), result \in {CollabError} \cup Transcripts, s \in Sessions :
        \E wrs \in WriteSeqs(2, disk, s) : AudioUploadFinish(MaxIngestOps, req, result, s, wrs)
  \/ \E file \in {"none", "bad", "image"} : OcrUploadStart(MaxIngestOps, file)
  \/ \E req \in Pending("ocr"), result \in {CollabError} \cup OcrTexts, s \in Sessions :
        \E wrs \in WriteSeqs(3, disk, s) : OcrUploadFinish(MaxIngestOps, req, result, s, wrs)

SpecIngest == Init /\ [][NextIngest]_vars

(* SpecStages: the routes that wait for a collaborator.  The collaborator   *)
(* answers when it chooses to, or never; what the server itself is bound to *)
(* do is to end the calls it has put a timeout on.  The calls pass no       *)
(* timeout and no abort signal and the routes start no timer, so no kind of *)
(* call is timed.                                                          *)
TimedCalls == {}

StageTimeout ==
  \E req \in inflight :
     /\ req.kind \in TimedCalls
     /\ inflight' = inflight \ {req}
     /\ lastOp' = Answered("timeout", "finish", 500, NoSession)
     /\ UNCHANGED <<memoryStore, disk, now, generated, ops>>

NextStages ==
  \/ AudioUploadStart(MaxTimedOps, "audio")
  \/ \E req \in Pending("audio"), result \in {CollabError} \cup Transcripts, s \in Sessions :
        AudioUploadFinish(MaxTimedOps, req, result, s, OkWrites(2))
  \/ \E tmpl \in RequestTemplates : SoapGenerateStart(MaxTimedOps, SA, Str("x"), tmpl)
  \/ \E req \in Pending("generate"), response \in Responses :
        SoapGenerateFinish(MaxTimedOps, req, response, OkWrites(2))
  \/ OcrUploadStart(MaxTimedOps, "image")
  \/ \E req \in Pending("ocr"), result \in {CollabError} \cup OcrTexts, s \in Sessions :
        OcrUploadFinish(MaxTimedOps, req, result, s, OkWrites(3))

SpecStages == Init /\ [][NextStages]_vars /\ WF_vars(StageTimeout)

(* SpecPath: the four stages on the session that the upload creates, with   *)
(* the answers of the collaborators, then the status and the final          *)
(* response.                                                               *)
NextPath ==
  \/ AudioUploadStart(MaxPathOps, "audio")
  \/ \E req \in Pending("audio"), result \in {CollabError} \cup Transcripts :
        AudioUploadFinish(MaxPathOps, req, result, SA, OkWrites(2))
  \/ \E wrs \in WriteSeqs(1, disk, SA) : TranscriptConfirm(MaxPathOps, SA, Str("x"), wrs)
  \/ SoapGenerateStart(MaxPathOps, SA, Str("x"), Str("Cardiology SOAP"))
  \/ \E req \in Pending("generate"), response \in {CollabError, FullDoc("r1")} :
        SoapGenerateFinish(MaxPathOps, req, response, OkWrites(2))
  \/ PdfDownloadStart(MaxPathOps, SA)
  \/ \E req \in Pending("render"), finish \in BOOLEAN :
        PdfDownloadFinish(MaxPathOps, req, finish, OkWrites(1))
  \/ GetSessionStatus(MaxPathOps, SA)
  \/ FinalResponse(MaxPathOps, SA, NoSession)

SpecPath == Init /\ [][NextPath]_vars

(* SpecAgree: the store called directly, every call succeeding *)
NextAgree ==
  \/ \E s \in Sessions, k \in StoreKeys, v \in Values : Store(MaxAgreeOps, s, k, v, "ok")
  \/ \E s \in Sessions, k \in StoreKeys : Get(MaxAgreeOps, s, k)
  \/ \E s \in Sessions : GetSessionData(MaxAgreeOps, s)
  \/ \E s \in Sessions : DeleteSession(MaxAgreeOps, s, TRUE)
  \/ \E d \in TickDays : Tick(MaxAgreeOps, d)
  \/ \E order \in Orders(listSessions(disk, TRUE)) :
        CleanupOldSessions(MaxAgreeOps, RetentionDays, order, {})

SpecAgree == Init /\ [][NextAgree]_vars
(* SpecOverlap: requests to the SOAP route on one session, in flight        *)
(* together, each with its own template and its own document.              *)
OverlapTemplates == {Str("Cardiology SOAP"), Str("Pediatrics SOAP")}
OverlapResponses == {CollabError, FullDoc("r1"), FullDoc("r2")}

NextOverlap ==
  \/ \E tmpl \in OverlapTemplates : SoapGenerateStart(MaxOverlapOps, SA, Str("x"), tmpl)
  \/ \E req \in Pending("generate"), response \in OverlapResponses :
        \E wrs \in WriteSeqs(2, disk, req.sessionId) :
           SoapGenerateFinish(MaxOverlapOps, req, response, wrs)

SpecOverlap == Init /\ [][NextOverlap]_vars
(* SpecPrompt: the correction prompt and the lines typed into it *)
OriginalTexts == {<<"o">>, <<>>}
PromptLines == {<<>>, <<" ">>, <<"x">>, <<" ", "x">>}

NextPrompt ==
  \/ \E originalText \in OriginalTexts : PromptForTextCorrection(MaxPromptOps, originalText)
  \/ \E req \in Pending("prompt"), line \in PromptLines : HandleLine(MaxPromptOps, req, line)

SpecPrompt == Init /\ [][NextPrompt]_vars
(* SpecSelect: the selector applied to every short string of digits,       *)
(* letters, signs, points and blanks.                                      *)
SelectionChars == {"0", "1", "5", "8", "9", "a", ".", "-", " "}

Selections == UNION {[1..n -> SelectionChars] : n \in 0..MaxSelectionLen}

NextSelect == \E selection \in Selections : ValidateTemplateSelection(1, selection)

SpecSelect == Init /\ [][NextSelect]_vars

----------------------------------------------------------------------------
C2_OverwriteKeepsLaterValue ==
  (lastOp.op = "store" /\ ~lastOp.threw /\ lastOp.existed) =>
     LET sessionData == getSessionData(disk, lastOp.sessionId)
     IN  /\ lastOp.key \in DOMAIN sessionData
         /\ sessionData[lastOp.key] = lastOp.value

(* C3: after deleteSession returned, every get on the session is absent and *)
(* getSessionData is the empty mapping.                                    *)
C3_DeletedSessionIsGone ==
  (lastOp.op = "deleteSession" /\ ~lastOp.threw) =>
     /\ \A k \in Keys : get(memoryStore, disk, lastOp.sessionId, k).value = Null
     /\ getSessionData(disk, lastOp.sessionId) = EmptyMap

(* a session that had durable artifacts has been deleted *)
C3_Witness ==
  lastOp.op = "deleteSession" /\ ~lastOp.threw /\ lastOp.hadData

(* C8: a store whose durable write failed leaves get answering what it      *)
(* answered before the call.                                               *)
C8_FailedStoreRolledBack ==
  (lastOp.op = "store" /\ lastOp.threw) =>
     get(memoryStore, disk, lastOp.sessionId, lastOp.key).value = lastOp.before

(* the number of primary-path keys that have a file in the session *)
PresentPrimary(sessionId) ==
  Cardinality({k \in PrimaryKeys : Record(disk, sessionId, k) # <<"none">>})

(* C4: the completion percentage of every session is 25 times the number    *)
(* of primary-path artifacts present, whatever their values, and each hasX  *)
(* flag says whether the artifact is present.                              *)
C4_StatusCountsPresentArtifacts ==
  \A s \in Sessions :
     LET status == getSessionStatus(disk, s)
     IN  /\ status.completionPercentage = 25 * PresentPrimary(s)
         /\ status.hasTranscriptRaw = (Record(disk, s, "transcript_raw") # <<"none">>)
         /\ status.hasTranscriptClean = (Record(disk, s, "transcript_clean") # <<"none">>)
         /\ status.hasSOAPData = (Record(disk, s, "soap_data") # <<"none">>)
         /\ status.hasPDF = (Record(disk, s, "pdf_path") # <<"none">>)

(* C5: no store that succeeded lowers the completion percentage of a        *)
(* session.                                                                *)
C5_PercentageNeverDecreases ==
  [][(lastOp'.op = "store" /\ ops' # ops /\ ~lastOp'.threw) =>
        \A s \in Sessions :
           getSessionStatus(disk', s).completionPercentage
              >= getSessionStatus(disk, s).completionPercentage]_vars

(* C10: every session that qualified for removal and whose removal did not  *)
(* fail is gone after the sweep.                                           *)
C10_SweepSkipsFailedSession ==
  lastOp.op = "cleanupOldSessions" =>
     \A s \in lastOp.qualified \ lastOp.rmFails : s \notin DOMAIN disk

(* a step of the route op in the given phase *)
RouteStep(op, phase) ==
  /\ ops' # ops
  /\ lastOp'.op = op
  /\ lastOp'.phase = phase

(* a session without soap_data is refused and nothing is written *)
RenderRefused(s) ==
  get(memoryStore, disk, s, "soap_data").value = Null =>
     /\ lastOp'.status = 404
     /\ inflight' = inflight
     /\ disk' = disk
     /\ get(memoryStore', disk', s, "pdf_path").value
           = get(memoryStore, disk, s, "pdf_path").value

(* a session on which the SOAP route succeeded is admitted to the rendering *)
RenderAdmitted(s) == s \in generated => lastOp'.status = 0

(* the rendered file is stored as pdf_path and the route answers success *)
RenderStored(s) ==
  /\ lastOp'.status = 200
  /\ get(memoryStore', disk', s, "pdf_path").value = pdfPath(s)
  /\ Record(disk', s, "pdf_path") # <<"none">>
  /\ FileParses(Record(disk', s, "pdf_path"))
  /\ FileValue(Record(disk', s, "pdf_path")) = pdfPath(s)

(* C6: the PDF route refuses a session that has no soap_data, writing no    *)
(* pdf_path; once the SOAP route has succeeded on the session the PDF       *)
(* route is admitted, and when the rendering and the write succeed it       *)
(* answers success with pdf_path stored.                                   *)
C6_RenderGatedOnSoapData ==
  [][/\ (RouteStep("pdfDownload", "start") /\ lastOp'.sessionId # NoSession) =>
          (RenderRefused(lastOp'.sessionId) /\ RenderAdmitted(lastOp'.sessionId))
     /\ (RouteStep("pdfDownload", "finish") /\ lastOp'.rendered
            /\ \A i \in DOMAIN lastOp'.wrs : lastOp'.wrs[i] = "ok") =>
          RenderStored(lastOp'.sessionId)]_vars

(* the PDF route has answered success on a session whose SOAP route had     *)
(* succeeded                                                               *)
C6_Witness ==
  /\ lastOp.op = "pdfDownload" /\ lastOp.phase = "finish" /\ lastOp.status = 200
  /\ lastOp.sessionId \in generated

(* C7: the PDF route refuses a session in which exactly one of soap_data    *)
(* and template_type is present.                                           *)
C7_RenderRequiresBothArtifacts ==
  (/\ lastOp.op = "pdfDownload" /\ lastOp.phase = "start" /\ lastOp.status # 400
   /\ (lastOp.soapData = Null) # (lastOp.templateType = Null))
     => lastOp.status = 404

(* C9: a route in which a durable write failed answers an error, and the    *)
(* files of every other pair are as they were before the failed store.      *)
C9_WriteFailureSurfaces ==
  (lastOp.op \in {"audioUpload", "transcriptConfirm", "soapGenerate", "pdfDownload"}
      /\ \E i \in DOMAIN lastOp.wrs : lastOp.wrs[i] # "ok") =>
     /\ lastOp.status = 500
     /\ lastOp.failed.sessionId # NoSession
     /\ \A s \in Sessions, k \in Keys :
           (s # lastOp.failed.sessionId \/ k # lastOp.failed.key) =>
              Record(disk, s, k) = Record(lastOp.failed.diskBefore, s, k)

(* a write of the second store of a route has failed after the first store  *)
(* was written                                                             *)
C9_Witness ==
  /\ lastOp.op = "soapGenerate" /\ lastOp.phase = "finish"
  /\ lastOp.wrs = <<"ok", "write">>
  /\ Record(disk, lastOp.sessionId, "soap_data") # <<"none">>

----------------------------------------------------------------------------
(* The retention sweep *)

(* the sessions of a data directory that hold at least one artifact *)
HasArtifacts(dsk, sessionId) ==
  /\ sessionId \in DOMAIN dsk
  /\ DOMAIN dsk[sessionId].files # {}
  /\ \A k \in DOMAIN dsk[sessionId].files : FileParses(dsk[sessionId].files[k])

(* the latest timestamp among the artifacts of a session *)
LastStoredAt(dsk, sessionId) ==
  LET files == dsk[sessionId].files
  IN  CHOOSE t \in {files[k][2].timestamp : k \in DOMAIN files} :
         \A k \in DOMAIN files : files[k][2].timestamp <= t

(* C11: a sweep with the retention period of 7 days in which no removal     *)
(* fails deletes every session whose latest artifact was stored more than   *)
(* 7 days ago and leaves every other session as it was.                     *)
C11_SweepDeletesExactlyOldSessions ==
  [][(lastOp'.op = "cleanupOldSessions" /\ ops' # ops /\ lastOp'.rmFails = {}) =>
        \A s \in DOMAIN disk :
           HasArtifacts(disk, s) =>
              IF LastStoredAt(disk, s) < now - RetentionDays
                THEN s \notin DOMAIN disk'
                ELSE s \in DOMAIN disk' /\ disk'[s] = disk[s]]_vars

(* C12: the number a sweep returns is the number of sessions it removed.    *)
C12_SweepCountsRemovedSessions ==
  lastOp.op = "cleanupOldSessions" =>
     lastOp.result = Cardinality(lastOp.listed \ DOMAIN disk)

----------------------------------------------------------------------------
(* Concurrency and restart.  store has no await before its last statement:  *)
(* two calls issued together run one after the other, each to its end.      *)

(* C13: after two stores on the same pair have both completed, get and the  *)
(* entry of getSessionData agree, on the value of the store that completed  *)
(* later.                                                                  *)
C13_LastWriterWins ==
  (lastOp.op = "store" /\ ~lastOp.threw /\ lastOp.existed) =>
     LET got == get(memoryStore, disk, lastOp.sessionId, lastOp.key).value
         sessionData == getSessionData(disk, lastOp.sessionId)
     IN  /\ got = lastOp.value
         /\ lastOp.key \in DOMAIN sessionData
         /\ sessionData[lastOp.key] = got

(* what get answers for a pair in a process started on the data directory *)
DurableValue(dsk, sessionId, key) == get(EmptyMap, dsk, sessionId, key).value

(* C14: what a restarted process reads for a pair is the value of the last  *)
(* store on the pair whose write completed, absent after a deleteSession,   *)
(* and is changed by no other step: not by a store whose write failed, nor  *)
(* by a process that ended between the overlay write and the durable write. *)
C14_DurableAcrossRestart ==
  [][ops' # ops =>
        /\ \A s \in Sessions, k \in StoreKeys :
              DurableValue(disk', s, k) =
                 IF /\ lastOp'.op = "store" /\ ~lastOp'.threw
                    /\ lastOp'.sessionId = s /\ lastOp'.key = k
                   THEN lastOp'.value
                 ELSE IF /\ lastOp'.op = "deleteSession" /\ ~lastOp'.threw
                         /\ lastOp'.sessionId = s
                   THEN Null
                 ELSE DurableValue(disk, s, k)
        /\ lastOp'.op \in {"restart", "crashInStore"} =>
              \A s \in Sessions, k \in StoreKeys :
                 get(memoryStore', disk', s, k).value = DurableValue(disk', s, k)]_vars

----------------------------------------------------------------------------
(* The generation stage *)

(* C15: the generation collaborator is only ever called for a template of   *)
(* the template table, and every template_type artifact of every session    *)
(* names a template of the table.                                          *)
C15_OnlyTableTemplates ==
  /\ \A req \in Pending("generate") : req.template_type.v \in Templates
  /\ \A s \in Sessions :
        LET t == get(memoryStore, disk, s, "template_type").value
        IN  t # Null => (t.t = "string" /\ t.v \in Templates)

(* the fields a generated document is required to carry *)
RequiredOfDocument ==
  {"SOAP_Note", "SOAP_Note.Subjective", "SOAP_Note.Objective", "SOAP_Note.Assessment",
   "SOAP_Note.Plan", "summary", "prescription", "followUp", "nextSteps"}

CompleteDocument(doc) == doc.t = "object" /\ RequiredOfDocument \subseteq doc.v.fields

(* C16: when the answer of the generation collaborator is an error or lacks *)
(* a required field, the SOAP route answers an error and stores nothing;    *)
(* every soap_data artifact of every session carries every required field.  *)
C16_IncompleteDocumentRefused ==
  [][RouteStep("soapGenerate", "finish") =>
        /\ (lastOp'.response = CollabError \/ ~CompleteDocument(lastOp'.response)) =>
              /\ lastOp'.status = 500
              /\ disk' = disk
              /\ memoryStore' = memoryStore
        /\ \A s \in Sessions :
              LET soapData == get(memoryStore', disk', s, "soap_data").value
              IN  soapData # Null => CompleteDocument(soapData)]_vars

(* the SOAP route has refused a document that lacks one field of the note *)
C16_Witness ==
  /\ lastOp.op = "soapGenerate" /\ lastOp.phase = "finish"
  /\ lastOp.response # CollabError
  /\ "SOAP_Note.Plan" \notin lastOp.response.v.fields
  /\ lastOp.status = 500

----------------------------------------------------------------------------
(* The final response *)

(* what get answers for a pair in the current state *)
Present(sessionId, key) == get(memoryStore, disk, sessionId, key).value # Null

(* C17: the final response answers 404 when transcript_clean or soap_data   *)
(* is absent from the session and 200 otherwise, with or without pdf_path,  *)
(* and changes no file of any session.                                     *)
C17_FinalResponseNeedsTranscriptAndSoap ==
  [][(RouteStep("finalResponse", "finish") /\ lastOp'.sessionId # NoSession) =>
        /\ lastOp'.status =
              IF Present(lastOp'.sessionId, "transcript_clean")
                 /\ Present(lastOp'.sessionId, "soap_data")
                THEN 200 ELSE 404
        /\ disk' = disk]_vars

(* the final response has succeeded on a session that has no pdf_path, with *)
(* an OCR session named                                                    *)
C17_Witness ==
  /\ lastOp.op = "finalResponse" /\ lastOp.status = 200
  /\ lastOp.pdf_path = Null
  /\ lastOp.ocrSessionId # NoSession

(* C18: the OCR text of the final response is ocr_clean of the named OCR    *)
(* session when present, else its ocr_raw when present, else empty; when    *)
(* no OCR session is named nothing of an OCR session is read and the text   *)
(* is empty.                                                               *)
C18_OcrTextPrefersClean ==
  [][(RouteStep("finalResponse", "finish") /\ lastOp'.status = 200) =>
        LET o == lastOp'.ocrSessionId
        IN  IF o = NoSession
              THEN /\ lastOp'.ocr_text = Null
                   /\ \A read \in lastOp'.reads : read[2] \notin OcrKeys
              ELSE lastOp'.ocr_text =
                      IF Present(o, "ocr_clean")
                        THEN get(memoryStore, disk, o, "ocr_clean").value
                      ELSE IF Present(o, "ocr_raw")
                        THEN get(memoryStore, disk, o, "ocr_raw").value
                      ELSE Null]_vars

(* the final response has carried the confirmed text of an OCR session      *)
(* that also has a raw text                                                *)
C18_Witness ==
  /\ lastOp.op = "finalResponse" /\ lastOp.status = 200
  /\ lastOp.ocrSessionId # NoSession
  /\ lastOp.ocr_text = Str("clean")
  /\ Present(lastOp.ocrSessionId, "ocr_raw")

----------------------------------------------------------------------------
(* The order of the stages *)

(* the artifact of a pair, in the overlay and on the medium, is unchanged   *)
(* by the step                                                             *)
ArtifactUnchanged(sessionId, key) ==
  /\ Record(disk', sessionId, key) = Record(disk, sessionId, key)
  /\ get(memoryStore', disk', sessionId, key).value
        = get(memoryStore, disk, sessionId, key).value

(* C19: the transcript confirmation changes no artifact but                 *)
(* transcript_clean, so soap_data, template_type and pdf_path of a session  *)
(* that has them stay as they are; the SOAP route leaves pdf_path as it is. *)
C19_RerunKeepsDownstreamArtifacts ==
  [][/\ RouteStep("transcriptConfirm", "finish") =>
          \A s \in Sessions, k \in Keys \ {"transcript_clean"} : ArtifactUnchanged(s, k)
     /\ (lastOp'.op = "soapGenerate" /\ ops' # ops) =>
          \A s \in Sessions : ArtifactUnchanged(s, "pdf_path")]_vars

(* the transcript has been confirmed again on a session that has its        *)
(* document and its rendering                                              *)
C19_Witness ==
  /\ lastOp.op = "transcriptConfirm" /\ lastOp.status = 200
  /\ Present(lastOp.sessionId, "soap_data")
  /\ Present(lastOp.sessionId, "template_type")
  /\ Present(lastOp.sessionId, "pdf_path")

(* the stages of a primary session, as the artifacts present at each *)
StageArtifacts ==
  {{},
   {"transcript_raw"},
   {"transcript_raw", "transcript_clean"},
   {"transcript_raw", "transcript_clean", "soap_data"},
   {"transcript_raw", "transcript_clean", "soap_data", "pdf_path"}}

(* C20: the primary-path artifacts present in a session are always those of *)
(* one stage: a prefix of transcript_raw, transcript_clean, soap_data,      *)
(* pdf_path.                                                               *)
C20_ArtifactsFormPrefix ==
  \A s \in Sessions : {k \in PrimaryKeys : Present(s, k)} \in StageArtifacts

----------------------------------------------------------------------------
(* The stage routes, one by one *)

(* C21: the transcript confirmation with a session id and a non-empty       *)
(* string stores transcript_clean when its write succeeds, whether or not   *)
(* the session has transcript_raw; without a session id, or with a text     *)
(* that is empty or not a string, it is rejected and nothing is written.    *)
C21_ConfirmChecksOnlyItsBody ==
  [][RouteStep("transcriptConfirm", "finish") =>
        LET s == lastOp'.sessionId
            text == lastOp'.transcript_clean
        IN  IF s # NoSession /\ text.t = "string" /\ text.v # ""
              THEN lastOp'.wrs = <<"ok">> =>
                      /\ lastOp'.status = 200
                      /\ get(memoryStore', disk', s, "transcript_clean").value = text
                      /\ DurableValue(disk', s, "transcript_clean") = text
              ELSE /\ lastOp'.status = 400
                   /\ disk' = disk
                   /\ memoryStore' = memoryStore]_vars

(* the transcript has been confirmed on a session without transcript_raw *)
C21_Witness ==
  /\ lastOp.op = "transcriptConfirm" /\ lastOp.status = 200
  /\ ~Present(lastOp.sessionId, "transcript_raw")

(* C22: an upload route writes nothing before its collaborator has          *)
(* answered; when the file is rejected or the collaborator fails, the       *)
(* route answers an error, no artifact is stored and no session comes into  *)
(* existence.                                                              *)
C22_FailedIngestStoresNothing ==
  [][(lastOp'.op \in {"audioUpload", "ocrUpload"} /\ ops' # ops) =>
        IF lastOp'.phase = "start"
          THEN /\ disk' = disk
               /\ memoryStore' = memoryStore
               /\ lastOp'.file = "none" => lastOp'.status = 400
               /\ lastOp'.file = "bad" => lastOp'.status = 500
          ELSE lastOp'.result = CollabError =>
                  /\ lastOp'.status = 500
                  /\ disk' = disk
                  /\ memoryStore' = memoryStore]_vars

(* the transcription collaborator has failed and the route has answered *)
C22_Witness ==
  /\ lastOp.op = "audioUpload" /\ lastOp.phase = "finish"
  /\ lastOp.result = CollabError
  /\ lastOp.status = 500

(* C23: every request that waits for a collaborator is eventually answered, *)
(* whether or not the collaborator responds.                               *)
C23_EveryStageReturns == (inflight # {}) ~> (inflight = {})

----------------------------------------------------------------------------
(* Reading and enumerating *)

(* the file of a pair cannot be read as a record *)
Unreadable(dsk, sessionId, key) == Record(dsk, sessionId, key) = Truncated

(* C24: get, getSessionData and listSessions change no file; a record that  *)
(* cannot be read is answered as absent by get, a session with such a       *)
(* record as the empty mapping by getSessionData, and a data directory      *)
(* that cannot be enumerated as the empty set by listSessions.              *)
C24_ReadFailuresAreMisses ==
  [][ops' # ops =>
        /\ lastOp'.op = "get" =>
              /\ disk' = disk
              /\ (/\ sessionKey(lastOp'.sessionId, lastOp'.key) \notin DOMAIN memoryStore
                  /\ Unreadable(disk, lastOp'.sessionId, lastOp'.key))
                    => (lastOp'.result = Null /\ memoryStore' = memoryStore)
        /\ lastOp'.op = "getSessionData" =>
              /\ disk' = disk
              /\ memoryStore' = memoryStore
              /\ (\E k \in Keys : Unreadable(disk, lastOp'.sessionId, k))
                    => lastOp'.result = EmptyMap
        /\ lastOp'.op = "listSessions" =>
              /\ disk' = disk
              /\ memoryStore' = memoryStore
              /\ ~lastOp'.readOk => lastOp'.result = {}]_vars

(* getSessionData has answered the empty mapping for a session that has a   *)
(* record that can be read and one that cannot                             *)
C24_Witness ==
  /\ lastOp.op = "getSessionData" /\ lastOp.result = EmptyMap
  /\ \E k \in Keys : Unreadable(disk, lastOp.sessionId, k)
  /\ \E k \in Keys : DurableValue(disk, lastOp.sessionId, k) # Null

(* C25: the status of a session whose artifacts cannot be enumerated has a  *)
(* completion percentage of 0 and carries an error field.                   *)
C25_DegradedStatusCarriesError ==
  (/\ lastOp.op = "getSessionStatus"
   /\ \E k \in Keys : Unreadable(disk, lastOp.sessionId, k))
     => /\ lastOp.result.completionPercentage = 0
        /\ "error" \in DOMAIN lastOp.result

----------------------------------------------------------------------------
(* Deleting *)

(* a session of which neither the overlay nor the medium holds anything *)
NoArtifacts(sessionId) ==
  /\ sessionId \notin DOMAIN disk
  /\ \A k \in Keys : sessionKey(sessionId, k) \notin DOMAIN memoryStore

(* C26: deleteSession on a session that has no artifacts, never created or  *)
(* already deleted, does not throw and changes what no get answers and no   *)
(* file.                                                                   *)
C26_DeleteAbsentSessionIsNoOp ==
  [][(lastOp'.op = "deleteSession" /\ ops' # ops /\ NoArtifacts(lastOp'.sessionId)) =>
        /\ ~lastOp'.threw
        /\ disk' = disk
        /\ \A s \in Sessions, k \in Keys :
              get(memoryStore', disk', s, k).value = get(memoryStore, disk, s, k).value]_vars

----------------------------------------------------------------------------
(* The overlay *)

(* C27: get answers the overlay entry when there is one; otherwise the      *)
(* value of the durable record when there is one that can be read, which    *)
(* it puts into the overlay; otherwise absent, leaving the overlay as it    *)
(* was.                                                                    *)
C27_GetFillsOverlayOnMiss ==
  [][(lastOp'.op = "get" /\ ops' # ops) =>
        LET s == lastOp'.sessionId
            k == lastOp'.key
            sk == sessionKey(s, k)
            file == Record(disk, s, k)
        IN  /\ disk' = disk
            /\ IF sk \in DOMAIN memoryStore
                 THEN lastOp'.result = memoryStore[sk] /\ memoryStore' = memoryStore
               ELSE IF file # <<"none">> /\ file # Truncated
                 THEN /\ lastOp'.result = JSONparse(file[2].value)
                      /\ memoryStore' = MapSet(memoryStore, sk, lastOp'.result)
               ELSE lastOp'.result = Null /\ memoryStore' = memoryStore]_vars

(* get has answered a value that the overlay did not hold *)
C27_Witness ==
  lastOp.op = "get" /\ ~lastOp.hit /\ lastOp.result # Null

----------------------------------------------------------------------------
(* Enumerating and the status view *)

(* C28: every session that listSessions answers has at least one durable    *)
(* artifact.                                                               *)
C28_ListedSessionsHaveArtifacts ==
  lastOp.op = "listSessions" =>
     \A s \in lastOp.result : \E k \in Keys : Record(disk, s, k) # <<"none">>

(* C29: a store that succeeded on a key outside the primary path leaves     *)
(* the completion percentage of the session as it was.                      *)
C29_SecondaryKeysKeepPercentage ==
  [][(/\ lastOp'.op = "store" /\ ops' # ops /\ ~lastOp'.threw
      /\ lastOp'.key \notin PrimaryKeys) =>
        getSessionStatus(disk', lastOp'.sessionId).completionPercentage
           = getSessionStatus(disk, lastOp'.sessionId).completionPercentage]_vars

----------------------------------------------------------------------------
(* The whole path *)

(* the upload, the confirmation and the SOAP route have succeeded on the    *)
(* session and the PDF route has just succeeded on it                     *)
AllStagesSucceeded(s) ==
  /\ lastOp.op = "pdfDownload" /\ lastOp.phase = "finish" /\ lastOp.status = 200
  /\ lastOp.sessionId = s
  /\ s \in generated
  /\ \A k \in {"transcript_raw", "audio_file", "transcript_clean",
               "soap_data", "template_type", "pdf_path"} :
        /\ Record(disk, s, k) # <<"none">>
        /\ ~Unreadable(disk, s, k)

(* C30: when the four stages have succeeded on a session, its status        *)
(* reports 100 and its final response succeeds, with the transcript, a      *)
(* complete document and a pdf_path that is not empty.                     *)
C30_CompletedPathReportsAll ==
  \A s \in Sessions :
     AllStagesSucceeded(s) =>
        /\ getSessionStatus(disk, s).completionPercentage = 100
        /\ ~incompleteWorkflow(get(memoryStore, disk, s, "transcript_clean").value,
                               get(memoryStore, disk, s, "soap_data").value)
        /\ CompleteDocument(get(memoryStore, disk, s, "soap_data").value)
        /\ Truthy(get(memoryStore, disk, s, "pdf_path").value)

----------------------------------------------------------------------------
(* The template selector *)

(* the string without the white space at its end *)
RECURSIVE TrimEnd(_)
TrimEnd(str) ==
  IF str # <<>> /\ str[Len(str)] = " " THEN TrimEnd(SubSeq(str, 1, Len(str) - 1)) ELSE str

(* the digits of a string that denotes an integer (blanks around it and a   *)
(* sign before it allowed), or the empty string when it denotes none        *)
NumeralDigits(str) ==
  LET t == TrimEnd(TrimStart(str))
      u == IF t # <<>> /\ Head(t) \in {"-", "+"} THEN Tail(t) ELSE t
  IN  IF u # <<>> /\ \A i \in DOMAIN u : u[i] \in Digits THEN u ELSE <<>>

NumeralValue(str) ==
  LET t == TrimStart(str)
  IN  IF t # <<>> /\ Head(t) = "-" THEN 0 - DecimalValue(NumeralDigits(str))
      ELSE DecimalValue(NumeralDigits(str))

(* C31: a selection is valid exactly when it denotes an integer from 1 to   *)
(* the number of templates, and then the key answered is that of the        *)
(* template at that place of the table; every other selection is answered   *)
(* with an error and no template.                                          *)
C31_SelectionIsANumberInRange ==
  lastOp.op = "validateTemplateSelection" =>
     LET x == lastOp.selection
         inRange == /\ NumeralDigits(x) # <<>>
                    /\ NumeralValue(x) >= 1
                    /\ NumeralValue(x) <= Len(SOAP_TEMPLATES)
     IN  IF inRange
           THEN /\ lastOp.result.valid
                /\ lastOp.result.templateKey = SOAP_TEMPLATES[NumeralValue(x)]
           ELSE /\ ~lastOp.result.valid
                /\ "templateKey" \notin DOMAIN lastOp.result

----------------------------------------------------------------------------
(* The overlay and the medium *)

(* C32: in every state reached by store, get, getSessionData,               *)
(* deleteSession and sweep calls that all succeeded, every overlay entry    *)
(* has a durable record with the same value, and get answers for every      *)
(* session and key what getSessionData holds for them.                     *)
C32_OverlayAgreesWithMedium ==
  \A s \in Sessions, k \in Keys :
     LET sessionData == getSessionData(disk, s)
         entry == IF k \in DOMAIN sessionData THEN sessionData[k] ELSE Null
     IN  /\ sessionKey(s, k) \in DOMAIN memoryStore =>
               /\ k \in DOMAIN sessionData
               /\ memoryStore[sessionKey(s, k)] = sessionData[k]
         /\ get(memoryStore, disk, s, k).value = entry

----------------------------------------------------------------------------
(* The sweep and the age of a session *)

(* C33: a sweep with the retention period of 7 days removes a session that  *)
(* holds artifacts only if the latest of their storedAt times is more than  *)
(* 7 days before now; a session of which an artifact was overwritten        *)
(* within the period stays.                                                *)
C33_SweepRemovesOnlyOldSessions ==
  [][(lastOp'.op = "cleanupOldSessions" /\ ops' # ops) =>
        \A s \in DOMAIN disk :
           (HasArtifacts(disk, s) /\ s \notin DOMAIN disk') =>
               LastStoredAt(disk, s) < now - RetentionDays]_vars

----------------------------------------------------------------------------
(* The two artifacts of the SOAP route *)

(* what a reader of the session finds under a key: the answer of get *)
Observed(mem, dsk, sessionId, key) == get(mem, dsk, sessionId, key).value

(* C34: when the SOAP route has answered, either it answered success and    *)
(* soap_data and template_type both hold the document and the template of   *)
(* that request, or it answered failure and both are what they were         *)
(* before: a failed store leaves no new soap_data beside an old or absent   *)
(* template_type.                                                          *)
C34_GenerateStoresBothOrNeither ==
  [][RouteStep("soapGenerate", "finish") =>
       LET s == lastOp'.sessionId
       IN  IF lastOp'.status = 200
             THEN /\ Observed(memoryStore', disk', s, "soap_data") = lastOp'.response
                  /\ Observed(memoryStore', disk', s, "template_type") = lastOp'.template_type
             ELSE /\ Observed(memoryStore', disk', s, "soap_data")
                        = Observed(memoryStore, disk, s, "soap_data")
                  /\ Observed(memoryStore', disk', s, "template_type")
                        = Observed(memoryStore, disk, s, "template_type")]_vars

----------------------------------------------------------------------------
(* Deleting under a stage in flight *)

(* C35: a rendering that ends on a session which has no artifacts left,     *)
(* the session having been deleted while the rendering was in flight,       *)
(* stores nothing: the session still has no artifacts, and so no pdf_path   *)
(* without soap_data.                                                      *)
C35_DeletedSessionStaysEmpty ==
  [][(RouteStep("pdfDownload", "finish") /\ NoArtifacts(lastOp'.sessionId)) =>
        /\ lastOp'.sessionId \notin DOMAIN disk'
        /\ \A k \in Keys : sessionKey(lastOp'.sessionId, k) \notin DOMAIN memoryStore'
        /\ get(memoryStore', disk', lastOp'.sessionId, "pdf_path").value = Null]_vars

----------------------------------------------------------------------------
(* Two requests to the SOAP route at once *)

(* the document and the template a reader finds in a session *)
ObservedPair(mem, dsk, sessionId) ==
  <<Observed(mem, dsk, sessionId, "soap_data"), Observed(mem, dsk, sessionId, "template_type")>>

(* C36: when a request to the SOAP route returns right after another on     *)
(* the same session that had succeeded, both having been in flight          *)
(* together, the document and the template then found in the session are    *)
(* those of one of the two requests, never the document of one with the     *)
(* template of the other.                                                  *)
C36_OverlappingGeneratesPairUp ==
  [][(/\ RouteStep("soapGenerate", "finish")
      /\ lastOp.op = "soapGenerate" /\ lastOp.phase = "finish" /\ lastOp.status = 200
      /\ lastOp.sessionId = lastOp'.sessionId) =>
        ObservedPair(memoryStore', disk', lastOp'.sessionId)
           \in {<<lastOp.response, lastOp.template_type>>,
                <<lastOp'.response, lastOp'.template_type>>}]_vars

----------------------------------------------------------------------------
(* Sessions apart *)

(* C37: a store or a deleteSession on one session leaves what get answers   *)
(* for every key of every other session, and what getSessionData answers    *)
(* for it, as they were, also when the id of the first is a prefix of the   *)
(* id of the other.                                                        *)
C37_SessionsAreIsolated ==
  [][(ops' # ops /\ lastOp'.op \in {"store", "deleteSession"}) =>
        \A s \in Sessions \ {lastOp'.sessionId} :
           /\ getSessionData(disk', s) = getSessionData(disk, s)
           /\ \A k \in Keys :
                 get(memoryStore', disk', s, k).value = get(memoryStore, disk, s, k).value]_vars

----------------------------------------------------------------------------
(* The correction prompt *)

(* the lines read, each with its line end, as one text *)
RECURSIVE JoinLines(_)
JoinLines(lines) ==
  IF lines = <<>> THEN <<>> ELSE Head(lines) \o <<"\n">> \o JoinLines(Tail(lines))

(* a line without a character that is not white space *)
Blank(line) == \A i \in DOMAIN line : line[i] \in Whitespace

(* two blank lines one after the other among the lines *)
TwoBlankLines(lines) ==
  \E i \in DOMAIN lines : i + 1 \in DOMAIN lines /\ Blank(lines[i]) /\ Blank(lines[i + 1])

(* the lines as the prompt finished by them, at every length *)
EndsOnFirstTwoBlankLines(lines) ==
  /\ TwoBlankLines(lines)
  /\ ~TwoBlankLines(SubSeq(lines, 1, Len(lines) - 1))

(* the lines with every blank line taken as an empty line *)
BlankLinesEmptied(lines) ==
  [i \in DOMAIN lines |-> IF Blank(lines[i]) THEN <<>> ELSE lines[i]]

(* C38: the prompt is pending as long as no two blank lines in a row have   *)
(* been read and resolves on the line that completes the first such pair;   *)
(* it resolves to the text entered, a line of white space alone counting    *)
(* as an empty line, trimmed, or to the original text when every line       *)
(* entered was blank.                                                      *)
C38_PromptEndsOnTwoBlankLines ==
  /\ \A req \in Pending("prompt") : ~TwoBlankLines(req.lines)
  /\ lastOp.op = "promptForTextCorrection" =>
        /\ EndsOnFirstTwoBlankLines(lastOp.lines)
        /\ lastOp.finalText =
              IF \A i \in DOMAIN lastOp.lines : Blank(lastOp.lines[i])
                THEN lastOp.originalText
                ELSE trim(JoinLines(BlankLinesEmptied(lastOp.lines)))

(* the prompt has resolved on a text in which a line of white space alone   *)
(* stands between two lines of text                                        *)
C38_Witness ==
  /\ lastOp.op = "promptForTextCorrection"
  /\ \E i, j, k \in DOMAIN lastOp.lines :
        /\ i < j /\ j < k
        /\ ~Blank(lastOp.lines[i]) /\ ~Blank(lastOp.lines[k])
        /\ lastOp.lines[j] = <<" ">>

(* C38 as stated: the prompt resolves to the text entered, as it was        *)
(* entered, trimmed, or to the original text when every line was blank.     *)
C38_ResolvesToEnteredTextTrimmed ==
  /\ \A req \in Pending("prompt") : ~TwoBlankLines(req.lines)
  /\ lastOp.op = "promptForTextCorrection" =>
        /\ EndsOnFirstTwoBlankLines(lastOp.lines)
        /\ lastOp.finalText =
              IF \A i \in DOMAIN lastOp.lines : Blank(lastOp.lines[i])
                THEN lastOp.originalText
                ELSE trim(JoinLines(lastOp.lines))

====
